---------------------------- MODULE Spec2Model ----------------------------
(***************************************************************************)
(* A model of django_openid/consumer.py: the OpenID consumer endpoints     *)
(* (Endpoint, LoginEndpoint, SessionEndpoint, CookieEndpoint), the two     *)
(* middlewares they double up as, and the signed-cookie codec; and of      *)
(* django_openid/auth.py: AuthConsumer, which ties an OpenID to an account *)
(* of django.contrib.auth.                                                 *)
(*                                                                         *)
(* Strings are sequences of character codes (ASCII), so that counting,     *)
(* splitting and altering single characters of a cookie are computed the   *)
(* way Python computes them.  Python dicts (request.session,               *)
(* request.COOKIES, the middleware instance's __dict__) are functions      *)
(* whose DOMAIN is the set of keys present.                                *)
(***************************************************************************)
EXTENDS Integers, Sequences, FiniteSets, TLC

VARIABLES
    kind,            \* which Endpoint subclass is mounted: "session" | "cookie"
    middleware,      \* whether the class is also installed as middleware
    session_key,     \* SessionEndpoint.session_key (class attribute)
    secret_key,      \* CookieEndpoint.secret_key (<<>> models None)
    SECRET_KEY,      \* django.conf.settings.SECRET_KEY
    DEBUG,           \* django.conf.settings.DEBUG
    xri_enabled,     \* Endpoint.xri_enabled (class attribute)
    session,         \* request.session: dict, key -> list of OpenID records
    jar,             \* the client's cookies: dict, cookie name -> value
    instance,        \* the middleware instance's attributes (self.__dict__)
    req,             \* the requests in flight, per slot
    bound,           \* history: the client's last login/logout that completed
    user,            \* request.user as django.contrib.auth keeps it in the session
    call,            \* the last call of the endpoint: its inputs and what it did
    c_pc, c_obj, c_token, c_kind, c_result   \* codec harness (SpecCodec)

vars == <<kind, middleware, session_key, secret_key, SECRET_KEY, DEBUG,
          xri_enabled, session, jar, instance, req, bound, user, call,
          c_pc, c_obj, c_token, c_kind, c_result>>

config == <<kind, middleware, session_key, secret_key, SECRET_KEY, DEBUG,
            xri_enabled>>
codecVars == <<c_pc, c_obj, c_token, c_kind, c_result>>
webVars == <<session, jar, instance, req, bound>>

---------------------------------------------------------------------------
(* Bounds of the model *)

NumURLs == 2        \* distinct identity URLs a provider may assert
NumSreg == 2        \* distinct simple-registration payloads
MaxTokenLen == 3    \* length of the arbitrary cookie strings tried

URLs == 1..NumURLs
Sregs == 1..NumSreg

(* django_openid.utils.OpenID: the identity record.  Only its .openid      *)
(* attribute is read by consumer.py.                                       *)
OpenIDs == [openid : URLs, sreg : Sregs]

(* Python's None where an OpenID is expected (request.openid = None). *)
None == [openid |-> 0, sreg |-> 0]

(* OpenID.from_openid_response(openid_response) *)
from_openid_response(resp) == [openid |-> resp.identity_url, sreg |-> resp.sreg]

(* request.user before any login: django.contrib.auth's AnonymousUser,     *)
(* whose id is None (0 here) and which carries no backend annotation.      *)
AnonymousUser == [id |-> 0, backend |-> "none"]

(* No call of the endpoint made yet *)
NoCall == [pc |-> "none"]

---------------------------------------------------------------------------
(* Character-level helpers (Python str methods) *)

Colon == 58      \* ':'
Pad == 61        \* '='

RECURSIVE count(_, _)
count(s, c) ==   \* s.count(c)
    IF s = <<>> THEN 0
    ELSE (IF Head(s) = c THEN 1 ELSE 0) + count(Tail(s), c)

RECURSIVE find(_, _)
find(s, c) ==    \* 1-based index of the first c in s, 0 when absent
    IF s = <<>> THEN 0
    ELSE IF Head(s) = c THEN 1
    ELSE LET r == find(Tail(s), c) IN IF r = 0 THEN 0 ELSE r + 1

(* s.split(':') for a string with exactly one ':' *)
split(s) ==
    LET i == find(s, Colon)
    IN  <<SubSeq(s, 1, i - 1), SubSeq(s, i + 1, Len(s))>>

---------------------------------------------------------------------------
(* pickle, zlib, base64, hashlib: the library transforms the codec chains.  *)
(* Each is computed on bytes; the inverse checks what the library checks.   *)

Raised(exc) == [ok |-> FALSE, exc |-> exc, val |-> <<>>]
Returned(v) == [ok |-> TRUE, exc |-> "none", val |-> v]

(* pickle.dumps(obj): length-prefixed URL bytes ("h:" + letter), the sreg   *)
(* byte, and the STOP opcode '.'                                            *)
pickle_dumps(obj) ==
    LET ub == <<104, Colon, 96 + obj.openid>>
    IN  <<Len(ub)>> \o ub \o <<48 + obj.sreg>> \o <<46>>

pickle_loads(b) ==
    IF /\ Len(b) = 6
       /\ b[1] = 3 /\ b[2] = 104 /\ b[3] = Colon
       /\ b[4] \in 97..122 /\ b[5] \in 49..57 /\ b[6] = 46
    THEN Returned([openid |-> b[4] - 96, sreg |-> b[5] - 48])
    ELSE Raised("UnpicklingError")

RECURSIVE checksum(_)
checksum(b) == IF b = <<>> THEN 1 ELSE (Head(b) + checksum(Tail(b))) % 251

(* zlib.compress: 0x78 0x9c header, the data, a trailing checksum *)
zlib_compress(b) == <<120, 156>> \o b \o <<checksum(b)>>

zlib_decompress(z) ==
    IF Len(z) >= 3 /\ z[1] = 120 /\ z[2] = 156
       /\ z[Len(z)] = checksum(SubSeq(z, 3, Len(z) - 1))
    THEN Returned(SubSeq(z, 3, Len(z) - 1))
    ELSE Raised("zlib.error")

(* The URL-safe base64 alphabet: A-Z a-z 0-9 - _ *)
B64Char(i) ==
    IF i < 26 THEN 65 + i
    ELSE IF i < 52 THEN 97 + (i - 26)
    ELSE IF i < 62 THEN 48 + (i - 52)
    ELSE IF i = 62 THEN 45 ELSE 95

B64Index(c) ==
    IF c \in 65..90 THEN c - 65
    ELSE IF c \in 97..122 THEN c - 97 + 26
    ELSE IF c \in 48..57 THEN c - 48 + 52
    ELSE IF c = 45 THEN 62
    ELSE IF c = 95 THEN 63 ELSE -1

RECURSIVE urlsafe_b64encode(_)
urlsafe_b64encode(b) ==
    IF Len(b) = 0 THEN <<>>
    ELSE IF Len(b) = 1 THEN
        <<B64Char(b[1] \div 4), B64Char((b[1] % 4) * 16), Pad, Pad>>
    ELSE IF Len(b) = 2 THEN
        <<B64Char(b[1] \div 4), B64Char((b[1] % 4) * 16 + b[2] \div 16),
          B64Char((b[2] % 16) * 4), Pad>>
    ELSE
        <<B64Char(b[1] \div 4), B64Char((b[1] % 4) * 16 + b[2] \div 16),
          B64Char((b[2] % 16) * 4 + b[3] \div 64), B64Char(b[3] % 64)>>
        \o urlsafe_b64encode(SubSeq(b, 4, Len(b)))

(* base64 text to bytes, quad by quad; TypeError on text that is no quad *)
RECURSIVE b64quads(_)
b64quads(s) ==
    IF Len(s) = 0 THEN Returned(<<>>)
    ELSE IF Len(s) < 4 \/ B64Index(s[1]) < 0 \/ B64Index(s[2]) < 0
        THEN Raised("TypeError")
    ELSE LET i1 == B64Index(s[1])
             i2 == B64Index(s[2])
             b1 == i1 * 4 + i2 \div 16
         IN  IF s[3] = Pad /\ s[4] = Pad /\ Len(s) = 4 THEN Returned(<<b1>>)
             ELSE IF B64Index(s[3]) < 0 THEN Raised("TypeError")
             ELSE LET i3 == B64Index(s[3])
                      b2 == (i2 % 16) * 16 + i3 \div 4
                  IN  IF s[4] = Pad /\ Len(s) = 4 THEN Returned(<<b1, b2>>)
                      ELSE IF B64Index(s[4]) < 0 THEN Raised("TypeError")
                      ELSE LET rest == b64quads(SubSeq(s, 5, Len(s)))
                               b3 == (i3 % 4) * 64 + B64Index(s[4])
                           IN  IF rest.ok
                               THEN Returned(<<b1, b2, b3>> \o rest.val)
                               ELSE rest

urlsafe_b64decode(s) == b64quads(s)

HexChar(n) == IF n < 10 THEN 48 + n ELSE 87 + n

(* hashlib.sha1(data).hexdigest(), idealised as collision-free: the digest  *)
(* is a hex string that determines data.                                    *)
RECURSIVE sha1_hexdigest(_)
sha1_hexdigest(data) ==
    IF data = <<>> THEN <<>>
    ELSE <<HexChar(Head(data) \div 16), HexChar(Head(data) % 16)>>
         \o sha1_hexdigest(Tail(data))


---------------------------------------------------------------------------
(* CookieEndpoint: the signed-object codec *)

get_secret == IF secret_key # <<>> THEN secret_key ELSE SECRET_KEY

(* encode_object signing the compressed bytes instead of the base64 text *)
encode_object_signs_compressed(obj) ==
    LET compressed == zlib_compress(pickle_dumps(obj))
    IN  urlsafe_b64encode(compressed) \o <<Colon>>
        \o sha1_hexdigest(compressed \o get_secret)

(* "Returns URL-safe, sha1 signed base64 compressed pickle" *)
encode_object(obj) ==
    LET pickled == pickle_dumps(obj)
        compressed == zlib_compress(pickled)
        base64d == urlsafe_b64encode(compressed)
        sig == sha1_hexdigest(base64d \o get_secret)
    IN  base64d \o <<Colon>> \o sig

(* What one call of decode_object did: the value returned or the exception  *)
(* raised (with which message), and how far it got.                         *)
Outcome(exc, msg, value, sig_computed, payload_decoded) ==
    [exc |-> exc, msg |-> msg, value |-> value,
     sig_computed |-> sig_computed, payload_decoded |-> payload_decoded]

(* The steps of decode_object after the signature is accepted *)
unpack(base64d) ==
    LET compressed == urlsafe_b64decode(base64d)
        pickled == IF compressed.ok THEN zlib_decompress(compressed.val)
                   ELSE compressed
        obj == IF pickled.ok THEN pickle_loads(pickled.val) ELSE pickled
    IN  IF obj.ok THEN Outcome("none", "", obj.val, TRUE, TRUE)
        ELSE Outcome(obj.exc, "", None, TRUE, TRUE)

(* a guard that only rejects a string without any ':' *)
colon_check_absent_only(s) == count(s, Colon) = 0

(* The guard of decode_object's first statement *)
colon_check(s) == count(s, Colon) # 1

(* a comparison of the first eight characters only *)
sig_mismatch_prefix(sig1, sig2) ==
    SubSeq(sig1, 1, 8) # SubSeq(sig2, 1, 8)

(* The comparison of the signature carried with the signature computed *)
sig_mismatch(sig1, sig2) == sig1 # sig2

(* "Reverse of encode_object(), raises ValueError if signature fails" *)
decode_object(s) ==
    IF colon_check(s)
    THEN Outcome("ValueError", "Should be one and only one colon", None,
                 FALSE, FALSE)
    ELSE LET base64d == split(s)[1]
             sig1 == split(s)[2]
             sig2 == sha1_hexdigest(base64d \o get_secret)
         IN  IF sig_mismatch(sig1, sig2)
             THEN Outcome("ValueError", "Signature failed", None, TRUE, FALSE)
             ELSE unpack(base64d)

---------------------------------------------------------------------------
(* The codec on its own: encode a record, optionally alter the token or    *)
(* present an arbitrary string, then decode.                               *)

Secrets == {<<107>>, <<115, 50>>}

(* c XOR 2^k for a character code c: one flipped bit *)
Pow2(k) == IF k = 0 THEN 1 ELSE IF k = 1 THEN 2 ELSE IF k = 2 THEN 4
           ELSE IF k = 3 THEN 8 ELSE IF k = 4 THEN 16 ELSE IF k = 5 THEN 32
           ELSE IF k = 6 THEN 64 ELSE 128
FlipBit(c, k) ==
    IF (c \div Pow2(k)) % 2 = 1 THEN c - Pow2(k) ELSE c + Pow2(k)

(* The characters a position may be changed to: every single-bit flip of    *)
(* the original, and a few fixed ones (':', '=', 'A', '0', 'f', '!').       *)
Replacements(c) ==
    ({FlipBit(c, k) : k \in 0..7} \cup {Colon, Pad, 65, 48, 102, 33}) \ {c}

(* Arbitrary short strings over ':', 'A', '=' *)
ShortStrings ==
    UNION {[1..n -> {Colon, 65, Pad}] : n \in 0..MaxTokenLen}

(* A well-formed token with its separator removed, doubled, or moved *)
Reshaped(t) ==
    LET p == split(t)
    IN  {p[1] \o p[2], p[1], t \o <<Colon>>, <<Colon>> \o t,
         p[1] \o <<Colon, Colon>> \o p[2]}

InitCodec ==
    /\ kind = "cookie"
    /\ middleware = FALSE
    /\ session_key = "openids"
    /\ secret_key \in {<<>>} \cup Secrets
    /\ SECRET_KEY \in Secrets
    /\ DEBUG = FALSE
    /\ xri_enabled = FALSE
    /\ user = AnonymousUser
    /\ call = NoCall
    /\ session = <<>>
    /\ jar = <<>>
    /\ instance = <<>>
    /\ req = <<>>
    /\ bound = [op |-> "none", openid |-> None]
    /\ c_pc = "start"
    /\ c_obj \in OpenIDs
    /\ c_token = <<>>
    /\ c_kind = "none"
    /\ c_result = Outcome("none", "", None, FALSE, FALSE)

Encode ==
    /\ c_pc = "start"
    /\ c_token' = encode_object(c_obj)
    /\ c_pc' = "encoded"
    /\ UNCHANGED <<c_obj, c_kind, c_result, config, webVars, user, call>>

(* Change one position of the payload or of the signature (not the ':') *)
Tamper ==
    /\ c_pc = "encoded"
    /\ \E i \in 1..Len(c_token) :
         /\ i # find(c_token, Colon)
         /\ \E c \in Replacements(c_token[i]) :
              c_token' = [c_token EXCEPT ![i] = c]
         /\ c_kind' = IF i < find(c_token, Colon) THEN "payload"
                      ELSE "signature"
    /\ c_pc' = "tampered"
    /\ UNCHANGED <<c_obj, c_result, config, webVars, user, call>>

(* Replace the token by a string of another shape *)
Present ==
    /\ c_pc = "encoded"
    /\ c_token' \in ShortStrings \cup Reshaped(c_token)
    /\ c_kind' = "arbitrary"
    /\ c_pc' = "tampered"
    /\ UNCHANGED <<c_obj, c_result, config, webVars, user, call>>

Decode ==
    /\ c_pc \in {"encoded", "tampered"}
    /\ c_result' = decode_object(c_token)
    /\ c_pc' = "decoded"
    /\ UNCHANGED <<c_obj, c_token, c_kind, config, webVars, user, call>>

NextCodec == Encode \/ Tamper \/ Present \/ Decode

SpecCodec == InitCodec /\ [][NextCodec]_vars

---------------------------------------------------------------------------
(* Requests, responses and dicts *)

Put(d, k, v) == [x \in DOMAIN d \cup {k} |-> IF x = k THEN v ELSE d[x]]
Remove(d, k) == [x \in DOMAIN d \ {k} |-> d[x]]

cookie_key == "openid"                   \* CookieEndpoint.cookie_key
on_logged_in == "redirect_after_login"   \* LoginEndpoint.on_logged_in
on_logged_out == "redirect_after_logout" \* LoginEndpoint.on_logged_out
show_error == "error_page"               \* Endpoint.show_error

Statuses == {"SUCCESS", "CANCEL", "FAILURE", "SETUP_NEEDED"}

(* What a response does to the identity cookie *)
NoCookie == [op |-> "none", value |-> <<>>]
set_cookie(cookie_value) == [op |-> "set", value |-> cookie_value]
delete_cookie == [op |-> "delete", value |-> <<>>]

(* The client applying a response's Set-Cookie header *)
Apply(cookies, c) ==
    IF c.op = "set" THEN Put(cookies, cookie_key, c.value)
    ELSE IF c.op = "delete" THEN Remove(cookies, cookie_key)
    ELSE cookies

(* A request as it arrives.  openid/openids are the attributes the          *)
(* middleware sets; the rest records what the handlers did with it.         *)
Fresh(origin, cookies) ==
    [pc |-> "new", origin |-> origin, COOKIES |-> cookies,
     openid |-> None, openids |-> <<>>, mw |-> "none",
     view |-> "none", status |-> "none", arg |-> None,
     pre |-> <<>>, post |-> <<>>, modified |-> FALSE,
     response |-> "none", cookie |-> NoCookie, deleted_by_mw |-> FALSE]

(* What a view returns or raises, and the session it leaves *)
Result(sess, modified, response, cookie) ==
    [session |-> sess, modified |-> modified, response |-> response,
     cookie |-> cookie]

(* Cookies a request may carry that the client's jar does not hold: valid   *)
(* tokens of other logins, tokens with one character altered, tokens of    *)
(* another shape, tokens signed under an older secret, the empty string.   *)
StaleToken(o) ==
    LET base64d == split(encode_object(o))[1]
    IN  base64d \o <<Colon>> \o sha1_hexdigest(base64d \o <<111, 108, 100>>)

ForeignValues ==
    LET t == encode_object([openid |-> 1, sreg |-> 1])
    IN  {<<>>, <<65>>, <<Colon>>,
         [t EXCEPT ![1] = 65],
         [t EXCEPT ![Len(t)] = 48],
         split(t)[1],
         t \o <<Colon>> \o split(t)[2],
         StaleToken([openid |-> 1, sreg |-> 1])}
        \cup {encode_object(o) : o \in OpenIDs}

(* The requests that may arrive: the client's, carrying its jar, or        *)
(* another sender's.  Only the middleware reads request.COOKIES.           *)
Arrivals ==
    IF kind = "cookie"
    THEN {Fresh("client", jar), Fresh("foreign", <<>>)}
         \cup IF middleware
              THEN {Fresh("foreign", Put(<<>>, cookie_key, v)) :
                        v \in ForeignValues}
              ELSE {}
    ELSE {Fresh("client", <<>>)}

---------------------------------------------------------------------------
(* SessionEndpoint *)

(* on_success keeping every record that differs from the new one as a whole *)
SessionOnSuccess_CompareWhole(s, resp) ==
    LET new == from_openid_response(resp)
        s1 == IF "openids" \notin DOMAIN s THEN Put(s, session_key, <<>>) ELSE s
    IN  Result(Put(s1, session_key,
                   Append(SelectSeq(s1[session_key], LAMBDA o : o # new), new)),
               TRUE, on_logged_in, NoCookie)

(* on_success appending without removing the earlier record of the URL *)
SessionOnSuccess_NoFilter(s, resp) ==
    LET s1 == IF "openids" \notin DOMAIN s THEN Put(s, session_key, <<>>) ELSE s
    IN  Result(Put(s1, session_key,
                   Append(s1[session_key], from_openid_response(resp))),
               TRUE, on_logged_in, NoCookie)

SessionOnSuccess(s, resp) ==
    LET s1 == IF "openids" \notin DOMAIN s THEN Put(s, session_key, <<>>) ELSE s
    IN  IF session_key \notin DOMAIN s1
        THEN Result(s1, FALSE, "KeyError", NoCookie)
        ELSE LET s2 == Put(s1, session_key,
                           SelectSeq(s1[session_key],
                                     LAMBDA o : o.openid # resp.identity_url))
                 s3 == Put(s2, session_key,
                           Append(s2[session_key], from_openid_response(resp)))
             IN  Result(s3, TRUE, on_logged_in, NoCookie)

(* do_logout keeping the selected record and dropping the others *)
SessionDoLogout_Inverted(s, openid) ==
    IF openid # 0 /\ session_key \in DOMAIN s
    THEN Result(Put(s, session_key,
                    SelectSeq(s[session_key], LAMBDA o : o.openid = openid)),
                TRUE, on_logged_out, NoCookie)
    ELSE Result(Put(s, session_key, <<>>), TRUE, on_logged_out, NoCookie)

(* openid: the value of GET[session_key]; 0 when absent or empty *)
SessionDoLogout(s, openid) ==
    IF openid # 0
    THEN IF session_key \notin DOMAIN s
         THEN Result(s, FALSE, "KeyError", NoCookie)
         ELSE Result(Put(s, session_key,
                         SelectSeq(s[session_key],
                                   LAMBDA o : o.openid # openid)),
                     TRUE, on_logged_out, NoCookie)
    ELSE Result(Put(s, session_key, <<>>), TRUE, on_logged_out, NoCookie)

(* SessionEndpoint.process_request: the attributes set and how it ended *)
session_process_request(s) ==
    IF session_key \in DOMAIN s
    THEN IF "openids" \notin DOMAIN s
         THEN [exc |-> "KeyError", openid |-> None, openids |-> <<>>]
         ELSE IF s["openids"] = <<>>
         THEN [exc |-> "IndexError", openid |-> None, openids |-> <<>>]
         ELSE [exc |-> "ok", openid |-> s["openids"][1],
               openids |-> s["openids"]]
    ELSE [exc |-> "ok", openid |-> None, openids |-> <<>>]

---------------------------------------------------------------------------
(* CookieEndpoint *)

(* on_success storing the identity the request arrived with *)
CookieOnSuccess_StoresOld(q, resp) ==
    Result(session, FALSE, on_logged_in, set_cookie(encode_object(q.openid)))

CookieOnSuccess(q, resp) ==
    LET openid == from_openid_response(resp)
    IN  Result(session, FALSE, on_logged_in, set_cookie(encode_object(openid)))

CookieDoLogout == Result(session, FALSE, on_logged_out, delete_cookie)

(* process_request swallowing the ValueError without flagging the cookie *)
cookie_process_request_no_flag(cookies) ==
    LET present == cookie_key \in DOMAIN cookies /\ cookies[cookie_key] # <<>>
        d == decode_object(cookies[cookie_key])
    IN  IF present /\ d.exc = "none"
        THEN [exc |-> "ok", openid |-> d.value, openids |-> <<d.value>>,
              flag |-> FALSE]
        ELSE [exc |-> "ok", openid |-> None, openids |-> <<>>, flag |-> FALSE]

(* CookieEndpoint.process_request: the attributes set, the flag left on    *)
(* the instance, and how it ended                                          *)
cookie_process_request(cookies) ==
    LET present == cookie_key \in DOMAIN cookies /\ cookies[cookie_key] # <<>>
        d == decode_object(cookies[cookie_key])
    IN  IF ~present
        THEN [exc |-> "ok", openid |-> None, openids |-> <<>>, flag |-> FALSE]
        ELSE IF d.exc = "none"
        THEN [exc |-> "ok", openid |-> d.value, openids |-> <<d.value>>,
              flag |-> FALSE]
        ELSE IF d.exc = "ValueError"
        THEN [exc |-> "ok", openid |-> None, openids |-> <<>>, flag |-> TRUE]
        ELSE [exc |-> d.exc, openid |-> None, openids |-> <<>>, flag |-> FALSE]

---------------------------------------------------------------------------
(* Endpoint.do_complete *)

(* a dispatch that treats SETUP_NEEDED like SUCCESS *)
handler_setup_as_success(status) ==
    IF status \in {"SUCCESS", "SETUP_NEEDED"} THEN "on_success"
    ELSE IF status = "CANCEL" THEN "on_cancel" ELSE "on_failure"

(* a dispatch that falls back on on_failure for a status it does not know *)
handler_defaults_to_failure(status) ==
    IF status = "SUCCESS" THEN "on_success"
    ELSE IF status = "CANCEL" THEN "on_cancel"
    ELSE IF status = "SETUP_NEEDED" THEN "on_setup_needed"
    ELSE "on_failure"

(* The handler do_complete calls for a status *)
handler(status) ==
    IF status = "SUCCESS" THEN "on_success"
    ELSE IF status = "CANCEL" THEN "on_cancel"
    ELSE IF status = "FAILURE" THEN "on_failure"
    ELSE IF status = "SETUP_NEEDED" THEN "on_setup_needed"
    ELSE "KeyError"

do_complete(q, resp) ==
    LET h == handler(resp.status)
    IN  IF h = "on_success"
        THEN IF kind = "session" THEN SessionOnSuccess(session, resp)
             ELSE CookieOnSuccess(q, resp)
        ELSE IF h = "KeyError" THEN Result(session, FALSE, "KeyError", NoCookie)
        ELSE Result(session, FALSE, show_error, NoCookie)

---------------------------------------------------------------------------
(* The handlers as steps of a request: process_request, the view, and      *)
(* process_response.  A view is reached after process_request when the     *)
(* class is installed as middleware, and directly otherwise.  An exception *)
(* in process_request ends the request.  Spec handles one request at a     *)
(* time: req has a single slot, which the next request reuses.             *)

Init ==
    /\ kind \in {"session", "cookie"}
    /\ middleware \in BOOLEAN
    /\ session_key \in IF kind = "session" THEN {"openids", "myids"}
                       ELSE {"openids"}
    /\ secret_key \in IF kind = "cookie" THEN {<<>>, <<107>>} ELSE {<<>>}
    /\ SECRET_KEY = <<115, 50>>
    /\ DEBUG = FALSE
    /\ xri_enabled = FALSE
    /\ user = AnonymousUser
    /\ call = NoCall
    /\ session = <<>>
    /\ jar = <<>>
    /\ instance = <<>>
    /\ req = [r \in {1} |-> Fresh("client", <<>>)]
    /\ bound = [op |-> "none", openid |-> None]
    /\ c_pc = "start"
    /\ c_obj = None
    /\ c_token = <<>>
    /\ c_kind = "none"
    /\ c_result = Outcome("none", "", None, FALSE, FALSE)

SessionProcessRequest(r) ==
    /\ kind = "session" /\ middleware
    /\ req[r].pc \in {"new", "done"}
    /\ \E q \in Arrivals :
         LET out == session_process_request(session)
         IN  req' = [req EXCEPT ![r] =
                        [q EXCEPT !.openid = out.openid,
                                  !.openids = out.openids,
                                  !.mw = out.exc,
                                  !.pc = IF out.exc = "ok" THEN "view"
                                         ELSE "done"]]
    /\ UNCHANGED <<session, jar, instance, bound, config, codecVars, user, call>>

CookieProcessRequest(r) ==
    /\ kind = "cookie" /\ middleware
    /\ req[r].pc \in {"new", "done"}
    /\ \E q \in Arrivals :
         LET out == cookie_process_request(q.COOKIES)
         IN  /\ req' = [req EXCEPT ![r] =
                           [q EXCEPT !.openid = out.openid,
                                     !.openids = out.openids,
                                     !.mw = out.exc,
                                     !.pc = IF out.exc = "ok" THEN "view"
                                            ELSE "done"]]
             /\ instance' = Put(instance, "_cookie_needs_deleting", out.flag)
    /\ UNCHANGED <<session, jar, bound, config, codecVars, user, call>>

ViewReady(r) ==
    IF middleware THEN req[r].pc = "view" ELSE req[r].pc \in {"new", "done"}

Starting(r) == IF middleware THEN {req[r]} ELSE Arrivals

(* The state after view `name` ran on request q and returned res *)
FinishView(r, q, name, status, arg, res) ==
    LET pc2 == IF middleware /\ kind = "cookie" THEN "response" ELSE "done"
    IN  /\ req' = [req EXCEPT ![r] =
                      [q EXCEPT !.pc = pc2, !.view = name, !.status = status,
                                !.arg = arg, !.pre = session,
                                !.post = res.session,
                                !.modified = res.modified,
                                !.response = res.response,
                                !.cookie = res.cookie]]
        /\ session' = res.session
        /\ jar' = IF pc2 = "done" /\ q.origin = "client"
                  THEN Apply(jar, res.cookie) ELSE jar
        /\ bound' = IF kind = "cookie" /\ q.origin = "client"
                    THEN IF name = "do_complete" /\ status = "SUCCESS"
                         THEN [op |-> "login", openid |-> arg]
                         ELSE IF name = "do_logout"
                         THEN [op |-> "logout", openid |-> None]
                         ELSE bound
                    ELSE bound
        /\ UNCHANGED <<instance, config, codecVars, user, call>>

DoComplete(r) ==
    /\ ViewReady(r)
    /\ \E q \in Starting(r), status \in Statuses, o \in OpenIDs :
         LET resp == [status |-> status, identity_url |-> o.openid,
                      sreg |-> o.sreg]
         IN  FinishView(r, q, "do_complete", status, o, do_complete(q, resp))

SessionLogout(r) ==
    /\ kind = "session"
    /\ ViewReady(r)
    /\ \E q \in Starting(r), openid \in 0..(NumURLs + 1) :
         FinishView(r, q, "do_logout", "none", [openid |-> openid, sreg |-> 0],
                    SessionDoLogout(session, openid))

CookieLogout(r) ==
    /\ kind = "cookie"
    /\ ViewReady(r)
    /\ \E q \in Starting(r) :
         FinishView(r, q, "do_logout", "none", None, CookieDoLogout)

(* Any other view of the site: a page that touches neither binding *)
OtherView(r) ==
    /\ ViewReady(r)
    /\ \E q \in Starting(r) :
         FinishView(r, q, "page", "none", None,
                    Result(session, FALSE, "page", NoCookie))

CookieProcessResponse(r) ==
    /\ kind = "cookie" /\ middleware
    /\ req[r].pc = "response"
    /\ LET deleting == /\ "_cookie_needs_deleting" \in DOMAIN instance
                       /\ instance["_cookie_needs_deleting"]
           c == IF deleting THEN delete_cookie ELSE req[r].cookie
       IN  /\ req' = [req EXCEPT ![r].pc = "done", ![r].cookie = c,
                                 ![r].deleted_by_mw = deleting]
           /\ jar' = IF req[r].origin = "client" THEN Apply(jar, c) ELSE jar
    /\ UNCHANGED <<session, instance, bound, config, codecVars, user, call>>

Next ==
    \E r \in {1} :
        \/ SessionProcessRequest(r)
        \/ CookieProcessRequest(r)
        \/ DoComplete(r)
        \/ SessionLogout(r)
        \/ CookieLogout(r)
        \/ OtherView(r)
        \/ CookieProcessResponse(r)

Spec == Init /\ [][Next]_vars

(* Two requests in flight through one CookieEndpoint middleware instance:  *)
(* the steps of the two interleave, and both read and write the instance.  *)
InitConc ==
    /\ kind = "cookie"
    /\ middleware = TRUE
    /\ session_key = "openids"
    /\ secret_key = <<>>
    /\ SECRET_KEY = <<115, 50>>
    /\ DEBUG = FALSE
    /\ xri_enabled = FALSE
    /\ user = AnonymousUser
    /\ call = NoCall
    /\ session = <<>>
    /\ jar = <<>>
    /\ instance = <<>>
    /\ req = [r \in {1, 2} |-> Fresh("client", <<>>)]
    /\ bound = [op |-> "none", openid |-> None]
    /\ c_pc = "start"
    /\ c_obj = None
    /\ c_token = <<>>
    /\ c_kind = "none"
    /\ c_result = Outcome("none", "", None, FALSE, FALSE)

(* Between the two middleware hooks a request runs a view; the views here  *)
(* are a page and the logout, neither of which the middleware flag reads.  *)
NextConc ==
    \E r \in DOMAIN req :
        \/ CookieProcessRequest(r)
        \/ CookieLogout(r)
        \/ OtherView(r)
        \/ CookieProcessResponse(r)

SpecConc == InitConc /\ [][NextConc]_vars

---------------------------------------------------------------------------
(* Endpoint.__call__ and the sub-operations it dispatches to *)

Slash == 47          \* '/'
QuestionMark == 63   \* '?'

(* s.split(c)[0]: s up to its first c, all of s when it has none *)
split0(s, c) ==
    LET i == find(s, c)
    IN  IF i = 0 THEN s ELSE SubSeq(s, 1, i - 1)

endswith(s, c) == s # <<>> /\ s[Len(s)] = c
startswith(s, p) == Len(s) >= Len(p) /\ SubSeq(s, 1, Len(p)) = p

(* The names after "do_" of the sub-operations *)
login == <<108, 111, 103, 105, 110>>
complete == <<99, 111, 109, 112, 108, 101, 116, 101>>
debug == <<100, 101, 98, 117, 103>>
logo == <<108, 111, 103, 111>>
logout == <<108, 111, 103, 111, 117, 116>>

(* hasattr(self, 'do_%s' % part): Endpoint defines do_login, do_complete,  *)
(* do_debug and do_logo; SessionEndpoint and CookieEndpoint add do_logout. *)
hasattr_do(part) ==
    \/ part \in {login, complete, debug, logo}
    \/ part = logout /\ kind \in {"session", "cookie", "auth"}

(* The urlconf mounts the endpoint at a prefix and hands it the rest of    *)
(* the path as rest_of_url.                                                *)
Mount == <<Slash, 111, Slash>>
Host == <<104, Colon, Slash, Slash, 115>>

path(q) == Mount \o q.rest_of_url

(* request.build_absolute_uri(): scheme, host, path and, when the query    *)
(* string is not empty, '?' and the query string                           *)
build_absolute_uri(q) ==
    Host \o path(q)
         \o (IF q.query = <<>> THEN <<>> ELSE <<QuestionMark>> \o q.query)

(* What a call did: the collaborators and methods it invoked in order, the *)
(* exception it ended with or the response it returned, and the state it   *)
(* leaves.                                                                 *)
Did(trace, exc, response, message) ==
    [trace |-> trace, exc |-> exc, response |-> response,
     message |-> message, location |-> <<>>, return_to |-> <<>>,
     outcome |-> "none", session |-> session, cookie |-> NoCookie,
     user |-> user]

openid_required_message == "Enter an OpenID"
xri_disabled_message == "i-names are not supported"

(* openid.yadis.xri.identifierScheme *)
XRI_AUTHORITIES == {33, 61, 64, 43, 36, 40}     \* ! = @ + $ (

identifierScheme(identifier) ==
    IF \/ startswith(identifier, <<120, 114, 105, Colon, Slash, Slash>>)
       \/ identifier # <<>> /\ identifier[1] \in XRI_AUTHORITIES
    THEN "XRI" ELSE "URI"

(* do_login testing the scheme only after discovery has begun *)
do_login_begins_first(q) ==
    IF q.method = "GET"
    THEN Did(<<"show_login">>, "none", "login_form", "")
    ELSE IF "openid_url" \notin DOMAIN q.POST \/ q.POST["openid_url"] = <<>>
    THEN Did(<<"show_login">>, "none", "login_form", openid_required_message)
    ELSE IF q.discovery = "DiscoveryFailure"
    THEN Did(<<"begin", "show_error">>, "none", show_error,
             "The OpenID was invalid")
    ELSE IF identifierScheme(q.POST["openid_url"]) = "XRI" /\ ~xri_enabled
    THEN Did(<<"begin", "show_login">>, "none", "login_form",
             xri_disabled_message)
    ELSE Did(<<"begin", "add_extension_args", "redirectURL">>, "none",
             "redirect_to_provider", "")

do_login(q) ==
    IF q.method = "GET"
    THEN Did(<<"show_login">>, "none", "login_form", "")
    ELSE IF "openid_url" \notin DOMAIN q.POST \/ q.POST["openid_url"] = <<>>
    THEN Did(<<"show_login">>, "none", "login_form", openid_required_message)
    ELSE IF identifierScheme(q.POST["openid_url"]) = "XRI" /\ ~xri_enabled
    THEN Did(<<"show_login">>, "none", "login_form", xri_disabled_message)
    ELSE IF q.discovery = "DiscoveryFailure"
    THEN Did(<<"begin", "show_error">>, "none", show_error,
             "The OpenID was invalid")
    ELSE Did(<<"begin", "add_extension_args", "redirectURL">>, "none",
             "redirect_to_provider", "")

(* do_debug looking at the cookie before it looks at settings.DEBUG *)
do_debug_reads_first(q) ==
    IF kind = "cookie"
    THEN IF ~DEBUG THEN Did(<<"COOKIES">>, "Http404", "none", "")
         ELSE Did(<<"COOKIES">>, "AssertionError", "none", "")
    ELSE IF ~DEBUG THEN Did(<<>>, "none", "debug_page", "")
    ELSE Did(<<>>, "AssertionError", "none", "")

(* How CookieEndpoint.do_debug ends once the cookie went through          *)
(* decode_object: with its exception, or at the assert that follows        *)
AfterDecoding(d) == IF d.exc = "none" THEN "AssertionError" ELSE d.exc

(* Endpoint.do_debug, and CookieEndpoint's override *)
do_debug(q) ==
    IF ~DEBUG THEN Did(<<>>, "Http404", "none", "")
    ELSE IF kind = "cookie"
    THEN IF cookie_key \in DOMAIN q.COOKIES
         THEN Did(<<"COOKIES", "decode_object">>,
                  AfterDecoding(decode_object(q.COOKIES[cookie_key])),
                  "none", "")
         ELSE Did(<<"COOKIES">>, "AssertionError", "none", "")
    ELSE Did(<<>>, "AssertionError", "none", "")

do_logo(q) == Did(<<>>, "none", "logo", "")

(* A Result of the session and cookie handlers as the record of a call *)
FromResult(trace, r) ==
    [Did(trace, IF r.response = "KeyError" THEN "KeyError" ELSE "none",
         IF r.response = "KeyError" THEN "none" ELSE r.response, "")
        EXCEPT !.session = r.session, !.cookie = r.cookie]

do_logout(q) ==
    IF kind = "cookie"
    THEN FromResult(<<"on_logged_out", "delete_cookie">>, CookieDoLogout)
    ELSE FromResult(<<"on_logged_out">>,
                    SessionDoLogout(session, q.openid_arg))

---------------------------------------------------------------------------
(* AuthConsumer (auth.py): a session endpoint whose on_logged_in ties the  *)
(* OpenID to an account of django.contrib.auth.  Its base class is named   *)
(* consumer.SessionConsumer in the source; the session endpoint of         *)
(* consumer.py is SessionEndpoint.                                         *)

NumAccounts == 3     \* accounts in the User table
MaxMatches == 2      \* most accounts one OpenID is associated with

Accounts == 1..NumAccounts

Range(f) == {f[i] : i \in DOMAIN f}

(* The results lookup_openid may give: lists of distinct accounts *)
Matches ==
    {m \in UNION {[1..n -> Accounts] : n \in 0..MaxMatches} :
        \A i, j \in DOMAIN m : i # j => m[i] # m[j]}

is_authenticated(u) == u.id # 0

after_login_redirect_url == "redirect_after_login_url"

on_login_complete == after_login_redirect_url
already_logged_in == after_login_redirect_url

(* What an AuthConsumer method did and returned ("None": no return value) *)
AuthDid(outcome, trace, exc, returns, u) ==
    [outcome |-> outcome, trace |-> trace, exc |-> exc, returns |-> returns,
     user |-> u]

(* log_in_user: annotate the user, log it in, return on_login_complete's   *)
(* redirect                                                                *)
log_in_user(u, account) ==
    AuthDid("log_in_user", <<"log_in_user", "set_backend", "login",
                             "on_login_complete">>,
            "none", on_login_complete,
            [id |-> account, backend |-> "ModelBackend"])

need_authenticated_user(u) ==
    AuthDid("need_authenticated_user",
            <<"need_authenticated_user", "show_error">>, "TypeError",
            "none", u)

show_associate(u, method) ==
    IF ~is_authenticated(u)
    THEN [need_authenticated_user(u) EXCEPT
            !.trace = <<"show_associate">> \o @, !.outcome = "show_associate"]
    ELSE IF method = "POST"
    THEN AuthDid("show_associate", <<"show_associate">>, "AssertionError",
                 "none", u)
    ELSE AuthDid("show_associate", <<"show_associate", "render">>, "none",
                 "associate_page", u)

show_pick_account(u) ==
    AuthDid("show_pick_account", <<"show_pick_account">>, "none",
            "pick_account_page", u)

show_registration(u) ==
    AuthDid("show_registration", <<"show_registration">>, "none",
            "registration_page", u)

(* on_logged_in logging in the first account whenever any account matches *)
auth_on_logged_in_first_match(u, matches, method) ==
    LET a == IF is_authenticated(u)
             THEN IF u.id \in Range(matches)
                  THEN AuthDid("already_logged_in", <<"already_logged_in">>,
                               "none", already_logged_in, u)
                  ELSE show_associate(u, method)
             ELSE IF matches # <<>>
                  THEN [log_in_user(u, matches[1]) EXCEPT !.returns = "None"]
                  ELSE show_registration(u)
    IN  [a EXCEPT !.trace = <<"lookup_openid">> \o @]

(* AuthConsumer.on_logged_in.  The call of log_in_user is a statement, not *)
(* a return: its redirect is dropped and the method returns None.          *)
auth_on_logged_in(u, matches, method) ==
    LET a == IF is_authenticated(u)
             THEN IF u.id \in Range(matches)
                  THEN AuthDid("already_logged_in", <<"already_logged_in">>,
                               "none", already_logged_in, u)
                  ELSE show_associate(u, method)
             ELSE IF matches # <<>>
                  THEN IF Len(matches) = 1
                       THEN [log_in_user(u, matches[1])
                                EXCEPT !.returns = "None"]
                       ELSE show_pick_account(u)
                  ELSE show_registration(u)
    IN  [a EXCEPT !.trace = <<"lookup_openid">> \o @]

(* The session on_success leaves and the response on_logged_in returns *)
Joined(r, a) ==
    IF r.response = "KeyError"
    THEN FromResult(<<"complete", "on_success">>, r)
    ELSE [Did(<<"complete", "on_success">> \o a.trace, a.exc, a.returns, "")
            EXCEPT !.session = r.session, !.user = a.user,
                   !.outcome = a.outcome]

(* SessionEndpoint.on_success with AuthConsumer's on_logged_in *)
AuthOnSuccess(q, resp) ==
    Joined(SessionOnSuccess(session, resp),
           auth_on_logged_in(user, q.matches, q.method))

---------------------------------------------------------------------------
(* do_complete as __call__ reaches it: the return URL handed to the        *)
(* collaborator's complete(), then the handler of the status               *)

(* the return URL cut at the last '?' instead of the first *)
return_to_last_cut(url) ==
    LET cuts == {i \in 1..Len(url) : url[i] = QuestionMark}
    IN  IF cuts = {} THEN url
        ELSE SubSeq(url, 1, (CHOOSE i \in cuts : \A j \in cuts : j <= i) - 1)

(* request.build_absolute_uri().split('?')[0] *)
return_to(url) == split0(url, QuestionMark)

do_complete_view(q) ==
    LET resp == [status |-> q.status, identity_url |-> q.o.openid,
                 sreg |-> q.o.sreg]
        h == handler(q.status)
        d == IF h = "on_success" /\ kind = "auth" THEN AuthOnSuccess(q, resp)
             ELSE IF h = "on_success" /\ kind = "endpoint"
             THEN Did(<<"complete", "on_success">>, "none", "logged_in_page",
                      "")
             ELSE FromResult(IF h = "KeyError" THEN <<"complete">>
                             ELSE <<"complete", h>>,
                             do_complete(Fresh("client", q.COOKIES), resp))
    IN  [d EXCEPT !.return_to = return_to(build_absolute_uri(q))]

---------------------------------------------------------------------------
(* Endpoint.__call__ *)

(* Which way __call__ goes for a request *)
target(q) ==
    LET part == split0(q.rest_of_url, Slash)
    IN  IF ~endswith(path(q), Slash) THEN "redirect"
        ELSE IF part = <<>> THEN "do_login"
        ELSE IF ~hasattr_do(part) THEN "Http404"
        ELSE IF part = login THEN "do_login"
        ELSE IF part = complete THEN "do_complete"
        ELSE IF part = debug THEN "do_debug"
        ELSE IF part = logo THEN "do_logo"
        ELSE "do_logout"

(* The sub-operation named t run on request q *)
Run(t, q) ==
    IF t = "do_login" THEN do_login(q)
    ELSE IF t = "do_complete" THEN do_complete_view(q)
    ELSE IF t = "do_debug" THEN do_debug(q)
    ELSE IF t = "do_logo" THEN do_logo(q)
    ELSE do_logout(q)

(* The way __call__ went (t) and what was done that way (d) *)
Went(t, d) ==
    [d EXCEPT !.trace = IF t \in {"redirect", "Http404"} THEN @
                        ELSE <<t>> \o @]

(* a dispatch that looks up the method before it looks at the path *)
Endpoint_call_no_redirect(q) ==
    LET t == target([q EXCEPT !.rest_of_url = @ \o <<Slash>>])
    IN  Went(t, IF t = "Http404" THEN Did(<<>>, "Http404", "none", "")
                ELSE Run(t, q))

Endpoint_call(q) ==
    LET t == target(q)
    IN  Went(t, IF t = "redirect"
                THEN [Did(<<>>, "none", "redirect", "")
                         EXCEPT !.location = path(q) \o <<Slash>>]
                ELSE IF t = "Http404" THEN Did(<<>>, "Http404", "none", "")
                ELSE Run(t, q))

---------------------------------------------------------------------------
(* Calls of the endpoint, one request at a time, without the middleware.   *)
(* A request comes with what the collaborators will answer while it is     *)
(* handled: discovery for do_login, the verified response for do_complete, *)
(* the accounts lookup_openid finds.                                       *)

Base(rest) ==
    [method |-> "GET", rest_of_url |-> rest, query |-> <<>>, POST |-> <<>>,
     COOKIES |-> jar, openid_arg |-> 0, status |-> "none", o |-> None,
     discovery |-> "ok", matches |-> <<>>]

(* rest_of_url: "", "/", "login", "login/", "logi/", "logins/", "/x/",     *)
(* "complete", "complete/", "complete/?/", "debug/", "logo/", "logout/",   *)
(* "x/"                                                                    *)
Rests ==
    {<<>>, <<Slash>>, login, login \o <<Slash>>,
     SubSeq(login, 1, 4) \o <<Slash>>, login \o <<115, Slash>>,
     <<Slash, 120, Slash>>,
     complete, complete \o <<Slash>>,
     complete \o <<Slash, QuestionMark, Slash>>,
     debug \o <<Slash>>, logo \o <<Slash>>, logout \o <<Slash>>,
     <<120, Slash>>}

(* openid_url: "", "h", "h=e", "xri", "xri://e", and one identifier per    *)
(* XRI authority character                                                 *)
UserURLs ==
    {<<>>, <<104>>, <<104, 61, 101>>, <<120, 114, 105>>,
     <<120, 114, 105, Colon, Slash, Slash, 101>>}
    \cup {<<c, 101>> : c \in XRI_AUTHORITIES}

(* query strings: "", "a", "?", "a?b" *)
Queries == {<<>>, <<97>>, <<QuestionMark>>, <<97, QuestionMark, 98>>}

LoginVariants(b) ==
    {b} \cup {[b EXCEPT !.method = "POST", !.POST = p, !.discovery = d] :
                 p \in {<<>>} \cup {[k \in {"openid_url"} |-> u] :
                                       u \in UserURLs},
                 d \in {"ok", "DiscoveryFailure"}}

CompleteVariants(b) ==
    {[b EXCEPT !.query = qs, !.status = st, !.o = o] :
        qs \in Queries, st \in Statuses \cup {"OTHER"}, o \in OpenIDs}
    \cup IF kind = "auth"
         THEN {[b EXCEPT !.method = m, !.status = "SUCCESS", !.o = o,
                         !.matches = ms] :
                  m \in {"GET", "POST"}, o \in OpenIDs, ms \in Matches}
         ELSE {}

LogoutVariants(b) == {[b EXCEPT !.openid_arg = i] : i \in 0..(NumURLs + 1)}

Exchanges ==
    UNION {LET b == Base(rest)
               t == target(b)
           IN  IF t = "do_login" THEN LoginVariants(b)
               ELSE IF t = "do_complete" THEN CompleteVariants(b)
               ELSE IF t = "do_logout" THEN LogoutVariants(b)
               ELSE {b, [b EXCEPT !.query = <<97>>]} : rest \in Rests}

InitHandlers ==
    /\ kind \in {"endpoint", "session", "cookie"}
    /\ middleware = FALSE
    /\ session_key = "openids"
    /\ secret_key = <<>>
    /\ SECRET_KEY = <<115, 50>>
    /\ DEBUG \in BOOLEAN
    /\ xri_enabled \in BOOLEAN
    /\ session = <<>>
    /\ jar = <<>>
    /\ instance = <<>>
    /\ req = <<>>
    /\ bound = [op |-> "none", openid |-> None]
    /\ user = AnonymousUser
    /\ call = NoCall
    /\ c_pc = "start"
    /\ c_obj = None
    /\ c_token = <<>>
    /\ c_kind = "none"
    /\ c_result = Outcome("none", "", None, FALSE, FALSE)

(* The state a call leaves, and the record of it *)
Finish(q, d) ==
    /\ call' = [pc |-> "done", q |-> q, target |-> target(q),
                before |-> [session |-> session, user |-> user],
                trace |-> d.trace, exc |-> d.exc,
                response |-> d.response, message |-> d.message,
                location |-> d.location, return_to |-> d.return_to,
                outcome |-> d.outcome]
    /\ session' = d.session
    /\ jar' = Apply(jar, d.cookie)
    /\ user' = d.user
    /\ UNCHANGED <<instance, req, bound, config, codecVars>>

(* __call__ on request q, from the first line to the return or the raise *)
Handle(q) == Finish(q, Endpoint_call(q))

CallRedirects(q) == target(q) = "redirect" /\ Handle(q)

CallNotFound(q) == target(q) = "Http404" /\ Handle(q)

CallLogin(q) == target(q) = "do_login" /\ Handle(q)

CallComplete(q) == target(q) = "do_complete" /\ Handle(q)

CallDebug(q) == target(q) = "do_debug" /\ Handle(q)

CallLogo(q) == target(q) = "do_logo" /\ Handle(q)

CallLogout(q) == target(q) = "do_logout" /\ Handle(q)

(* The response has left; the endpoint waits for the next request *)
Return ==
    /\ call.pc = "done"
    /\ call' = NoCall
    /\ UNCHANGED <<webVars, config, codecVars, user>>

(* The endpoint takes the next request once the last call has returned *)
Arriving == IF call.pc = "none" THEN Exchanges ELSE {}

NextHandlers ==
    \/ \E q \in Arriving : CallRedirects(q)
    \/ \E q \in Arriving : CallNotFound(q)
    \/ \E q \in Arriving : CallLogin(q)
    \/ \E q \in Arriving : CallComplete(q)
    \/ \E q \in Arriving : CallDebug(q)
    \/ \E q \in Arriving : CallLogo(q)
    \/ \E q \in Arriving : CallLogout(q)
    \/ Return

SpecHandlers == InitHandlers /\ [][NextHandlers]_vars

(* AuthConsumer mounted, on a site whose visitors may already be logged in *)
(* through django.contrib.auth                                             *)
InitAuth ==
    /\ kind = "auth"
    /\ middleware = FALSE
    /\ session_key = "openids"
    /\ secret_key = <<>>
    /\ SECRET_KEY = <<115, 50>>
    /\ DEBUG = FALSE
    /\ xri_enabled = FALSE
    /\ session = <<>>
    /\ jar = <<>>
    /\ instance = <<>>
    /\ req = <<>>
    /\ bound = [op |-> "none", openid |-> None]
    /\ user \in {AnonymousUser}
                \cup {[id |-> i, backend |-> "ModelBackend"] : i \in Accounts}
    /\ call = NoCall
    /\ c_pc = "start"
    /\ c_obj = None
    /\ c_token = <<>>
    /\ c_kind = "none"
    /\ c_result = Outcome("none", "", None, FALSE, FALSE)

SpecAuth == InitAuth /\ [][NextHandlers]_vars

---------------------------------------------------------------------------
(* Properties of the endpoints (checked under Spec) *)

(* The session's identity list; empty when the key is absent *)
ListOf(s) == IF session_key \in DOMAIN s THEN s[session_key] ELSE <<>>

Records(s) == UNION {{s[k][i] : i \in 1..Len(s[k])} : k \in DOMAIN s}

(* This step is the view of request r *)
ViewStep(r) ==
    /\ req'[r] # req[r]
    /\ req'[r].pc \in {"response", "done"}
    /\ req'[r].view # "none"
    /\ middleware => req[r].pc = "view"

Completion(r, statuses) ==
    /\ req'[r].view = "do_complete"
    /\ req'[r].status \in statuses

(* C1: a do_complete whose status is CANCEL, FAILURE or SETUP_NEEDED       *)
(* leaves the session unchanged and sets no cookie on the response; a      *)
(* record enters the session, a response or the client's jar only in a     *)
(* request whose do_complete saw SUCCESS.                                   *)
C1_BoundOnlyOnSuccess ==
    [][\A r \in DOMAIN req :
         /\ (ViewStep(r) /\ Completion(r, Statuses \ {"SUCCESS"}))
                => /\ session' = session
                   /\ req'[r].cookie.op # "set"
                   /\ jar' = jar
         /\ ( \/ ~(Records(session') \subseteq Records(session))
              \/ (req'[r].cookie.op = "set" /\ req'[r].cookie # req[r].cookie)
              \/ (jar' # jar /\ cookie_key \in DOMAIN jar') )
                => Completion(r, {"SUCCESS"})
      ]_vars

C1_Witness ==
    /\ kind = "session"
    /\ req[1].view = "do_complete" /\ req[1].status = "CANCEL"
    /\ req[1].pc = "done"
    /\ req[1].response = show_error
    /\ Len(ListOf(session)) = 1

NoDuplicates(l) ==
    \A i, j \in 1..Len(l) : i # j => l[i].openid # l[j].openid

(* C2: no two records of the session's list share an identity URL, and     *)
(* after on_success exactly one record carries the new URL: the new one.   *)
C2_SessionDedup ==
    /\ \A k \in DOMAIN session : NoDuplicates(session[k])
    /\ \A r \in DOMAIN req :
         (/\ kind = "session" /\ req[r].pc = "done"
          /\ req[r].view = "do_complete" /\ req[r].status = "SUCCESS")
            => SelectSeq(ListOf(req[r].post),
                         LAMBDA o : o.openid = req[r].arg.openid)
                   = <<req[r].arg>>

C2_Witness ==
    /\ kind = "session" /\ req[1].pc = "done"
    /\ req[1].view = "do_complete" /\ req[1].status = "SUCCESS"
    /\ req[1].arg = [openid |-> 1, sreg |-> 2]
    /\ ListOf(req[1].pre) = <<[openid |-> 1, sreg |-> 1], [openid |-> 2, sreg |-> 1]>>
    /\ ListOf(session) = <<[openid |-> 2, sreg |-> 1], [openid |-> 1, sreg |-> 2]>>

(* C3: with the default session_key, process_request completes on every    *)
(* reachable session, and sets request.openid to the first record of the   *)
(* list (None when there is none) and request.openids to the list.         *)
C3_ProcessRequestCompletes ==
    \A r \in DOMAIN req :
        (kind = "session" /\ session_key = "openids")
            => /\ req[r].mw \in {"none", "ok"}
               /\ req[r].pc = "view"
                    => /\ req[r].openids = ListOf(session)
                       /\ req[r].openid = IF ListOf(session) = <<>> THEN None
                                          ELSE ListOf(session)[1]

(* C4: do_logout always returns the logged-out response with the session   *)
(* marked modified.                                                        *)
C4_LogoutAlwaysCompletes ==
    \A r \in DOMAIN req :
        (kind = "session" /\ req[r].view = "do_logout" /\ req[r].pc = "done")
            => /\ req[r].response = on_logged_out
               /\ req[r].modified

(* C5: do_logout with an identity URL leaves the list as it was without    *)
(* the record of that URL, the others unchanged and in order; without a    *)
(* URL it leaves the list empty; no other key of the session changes.      *)
C5_LogoutFrame ==
    \A r \in DOMAIN req :
        (kind = "session" /\ req[r].view = "do_logout" /\ req[r].pc = "done")
            => /\ IF req[r].arg.openid # 0
                  THEN ListOf(req[r].post)
                         = SelectSeq(ListOf(req[r].pre),
                                     LAMBDA o : o.openid # req[r].arg.openid)
                  ELSE /\ session_key \in DOMAIN req[r].post
                       /\ req[r].post[session_key] = <<>>
               /\ \A k \in DOMAIN req[r].pre \ {session_key} :
                    k \in DOMAIN req[r].post /\ req[r].post[k] = req[r].pre[k]

C5_Witness ==
    /\ kind = "session" /\ req[1].view = "do_logout" /\ req[1].pc = "done"
    /\ req[1].arg.openid = 1
    /\ ListOf(req[1].pre) = <<[openid |-> 1, sreg |-> 1], [openid |-> 2, sreg |-> 2]>>
    /\ ListOf(session) = <<[openid |-> 2, sreg |-> 2]>>

(* The request's identity cookie, when decoded, raises ValueError *)
FailsDecoding(cookies) ==
    /\ cookie_key \in DOMAIN cookies
    /\ cookies[cookie_key] # <<>>
    /\ decode_object(cookies[cookie_key]).exc = "ValueError"

C7_LastLoginWins ==
    \A r \in DOMAIN req :
        /\ (kind = "cookie" /\ req[r].origin = "client")
                => req[r].mw \in {"none", "ok"}
        /\ (/\ kind = "cookie" /\ middleware
            /\ req[r].pc = "view" /\ req[r].origin = "client")
            => /\ bound.op = "login"
                    => (req[r].openid = bound.openid
                        /\ req[r].openids = <<bound.openid>>)
               /\ bound.op = "logout"
                    => (req[r].openid = None /\ req[r].openids = <<>>)

C7_Witness ==
    /\ kind = "cookie" /\ middleware
    /\ req[1].pc = "view" /\ req[1].origin = "client"
    /\ bound = [op |-> "login", openid |-> [openid |-> 2, sreg |-> 1]]
    /\ req[1].openids = <<[openid |-> 2, sreg |-> 1]>>
    /\ req[1].COOKIES = jar

(* C16: on every reachable session, on_success applied twice with the     *)
(* same identity record leaves the session that one application leaves.    *)
C16_OnSuccessIdempotent ==
    kind = "session" =>
        \A o \in OpenIDs :
            LET resp == [status |-> "SUCCESS", identity_url |-> o.openid,
                         sreg |-> o.sreg]
                once == SessionOnSuccess(session, resp)
                twice == SessionOnSuccess(once.session, resp)
            IN  /\ twice.session = once.session
                /\ twice.response = once.response

(* The same login arrived again: it left a list of two as it found it *)
C16_Witness ==
    /\ kind = "session" /\ session_key = "openids" /\ req[1].pc = "done"
    /\ req[1].view = "do_complete" /\ req[1].status = "SUCCESS"
    /\ req[1].pre = req[1].post
    /\ Len(ListOf(session)) = 2
    /\ session[session_key][2] = req[1].arg

(* C20: for every session_key, a successful login keeps the records of the *)
(* other identity URLs in the list, and process_request on a session with  *)
(* identities completes and reports the whole list.                        *)
C20_BothIdentitiesKept ==
    \A r \in DOMAIN req :
        kind = "session" =>
            /\ (/\ req[r].pc = "done" /\ req[r].view = "do_complete"
                /\ req[r].status = "SUCCESS")
                 => \A i \in 1..Len(ListOf(req[r].pre)) :
                        ListOf(req[r].pre)[i].openid # req[r].arg.openid
                            => \E j \in 1..Len(ListOf(req[r].post)) :
                                 ListOf(req[r].post)[j] = ListOf(req[r].pre)[i]
            /\ ListOf(session) # <<>>
                 => /\ req[r].mw \in {"none", "ok"}
                    /\ req[r].pc = "view"
                         => req[r].openids = ListOf(session)

(* C20 with the default key only, where it holds *)
C20_DefaultKey == session_key = "openids" => C20_BothIdentitiesKept

(* C19 (checked under SpecConc): under every interleaving of two requests *)
(* through the middleware, a finished request had its cookie deleted by    *)
(* process_response if and only if its own cookie failed decoding.         *)
C19_DeletionIsPerRequest ==
    \A r \in DOMAIN req :
        (req[r].pc = "done" /\ req[r].mw = "ok")
            => /\ FailsDecoding(req[r].COOKIES) => req[r].deleted_by_mw
               /\ req[r].deleted_by_mw => FailsDecoding(req[r].COOKIES)

---------------------------------------------------------------------------
(* Properties of __call__ and its sub-operations (checked under            *)
(* SpecHandlers)                                                           *)

(* The call just made ran sub-operation t *)
Ran(t) == call.pc = "done" /\ call.target = t

Invoked(name) == name \in Range(call.trace)

PostedURL == call.q.POST["openid_url"]
Posted == "openid_url" \in DOMAIN call.q.POST /\ PostedURL # <<>>

(* C12: a POST to do_login whose openid_url is an XRI-scheme identifier    *)
(* while xri_enabled is false returns the login form with the XRI-disabled *)
(* message, and a POST whose openid_url is empty or missing returns the    *)
(* login form with the required message; in neither does the request call  *)
(* the collaborator's begin().                                             *)
C12_RejectedBeforeDiscovery ==
    (Ran("do_login") /\ call.q.method = "POST") =>
        /\ (Posted /\ identifierScheme(PostedURL) = "XRI" /\ ~xri_enabled)
              => /\ call.response = "login_form"
                 /\ call.message = xri_disabled_message
                 /\ ~Invoked("begin")
        /\ ~Posted
              => /\ call.response = "login_form"
                 /\ call.message = openid_required_message
                 /\ ~Invoked("begin")

(* an i-name posted with XRI support off, while discovery would succeed *)
C12_Witness ==
    /\ Ran("do_login") /\ call.q.method = "POST" /\ ~xri_enabled
    /\ Posted /\ PostedURL = <<61, 101>>
    /\ call.q.discovery = "ok"
    /\ call.message = xri_disabled_message

HandlerNames == {"on_success", "on_cancel", "on_failure", "on_setup_needed"}

(* The handlers the call just made invoked *)
HandlersInvoked == Range(call.trace) \cap HandlerNames

(* C13: do_complete invokes exactly one handler for each of the four       *)
(* statuses: on_success for SUCCESS, on_cancel for CANCEL, on_failure for  *)
(* FAILURE, on_setup_needed for SETUP_NEEDED; for any other status it      *)
(* invokes no handler and ends with an exception, not a response.          *)
C13_StatusToHandler ==
    Ran("do_complete") =>
        LET status == call.q.status
        IN  /\ status = "SUCCESS" => HandlersInvoked = {"on_success"}
            /\ status = "CANCEL" => HandlersInvoked = {"on_cancel"}
            /\ status = "FAILURE" => HandlersInvoked = {"on_failure"}
            /\ status = "SETUP_NEEDED" => HandlersInvoked = {"on_setup_needed"}
            /\ status \notin Statuses
                  => /\ HandlersInvoked = {}
                     /\ call.exc = "KeyError"
                     /\ call.response = "none"

(* a completion whose status is none of the four *)
C13_Witness ==
    /\ Ran("do_complete")
    /\ call.q.status \notin Statuses
    /\ call.exc = "KeyError"
    /\ Invoked("complete")

(* The sub-operations the call just made ran *)
SubOperations ==
    Range(call.trace)
        \cap {"do_login", "do_complete", "do_debug", "do_logo", "do_logout"}

(* The sub-operations of the mounted class, by the name in the URL *)
Named ==
    [n \in {login, complete, debug, logo}
           \cup (IF kind = "endpoint" THEN {} ELSE {logout}) |->
        IF n = login THEN "do_login"
        ELSE IF n = complete THEN "do_complete"
        ELSE IF n = debug THEN "do_debug"
        ELSE IF n = logo THEN "do_logo"
        ELSE "do_logout"]

(* C14: a request whose path lacks the trailing '/' is answered with a     *)
(* redirect to the path plus '/' and runs no sub-operation; otherwise an   *)
(* empty first segment runs do_login, a segment naming a sub-operation of  *)
(* the class runs exactly that one, and any other segment raises Http404   *)
(* (NotFound) and nothing else.                                            *)
C14_Dispatch ==
    call.pc = "done" =>
        LET p == Mount \o call.q.rest_of_url
            part == split0(call.q.rest_of_url, Slash)
        IN  IF p[Len(p)] # Slash
            THEN /\ call.response = "redirect"
                 /\ call.location = p \o <<Slash>>
                 /\ call.exc = "none"
                 /\ SubOperations = {}
                 /\ session = call.before.session
            ELSE IF part = <<>>
            THEN SubOperations = {"do_login"}
            ELSE IF part \in DOMAIN Named
            THEN SubOperations = {Named[part]}
            ELSE /\ call.exc = "Http404"
                 /\ SubOperations = {}

(* a segment that is the beginning of a sub-operation's name, not a name *)
C14_Witness ==
    /\ call.pc = "done"
    /\ call.q.rest_of_url = SubSeq(login, 1, 4) \o <<Slash>>
    /\ call.exc = "Http404"

(* C15: with settings.DEBUG off, do_debug of Endpoint and of               *)
(* CookieEndpoint raises Http404 (NotFound), and CookieEndpoint's neither  *)
(* reads request.COOKIES nor decodes the identity cookie.                  *)
C15_DebugOffIsNotFound ==
    (Ran("do_debug") /\ ~DEBUG) =>
        /\ call.exc = "Http404"
        /\ call.response = "none"
        /\ ~Invoked("COOKIES")
        /\ ~Invoked("decode_object")

(* CookieEndpoint's debug asked for by a client that holds an identity     *)
(* cookie, with DEBUG off                                                  *)
C15_Witness ==
    /\ Ran("do_debug") /\ ~DEBUG /\ kind = "cookie"
    /\ cookie_key \in DOMAIN call.q.COOKIES
    /\ call.exc = "Http404"

(* C17: the return URL do_complete hands to complete() has no '?' and is   *)
(* the request's absolute URL cut at its first '?': a prefix of the URL    *)
(* that the URL continues with '?', or the whole URL when it has none.     *)
C17_ReturnURLWithoutQuery ==
    Ran("do_complete") =>
        LET url == build_absolute_uri(call.q)
            rt == call.return_to
        IN  /\ QuestionMark \notin Range(rt)
            /\ Len(rt) <= Len(url)
            /\ SubSeq(url, 1, Len(rt)) = rt
            /\ Len(rt) < Len(url) => url[Len(rt) + 1] = QuestionMark

(* a completion request whose query string itself contains a '?' *)
C17_Witness ==
    /\ Ran("do_complete")
    /\ call.q.query = <<97, QuestionMark, 98>>
    /\ count(build_absolute_uri(call.q), QuestionMark) = 2
    /\ call.return_to = Host \o Mount \o complete \o <<Slash>>

---------------------------------------------------------------------------
(* Properties of AuthConsumer (checked under SpecAuth) *)

(* The call just made was a successful completion, so on_logged_in ran *)
LoggedIn == Ran("do_complete") /\ call.q.status = "SUCCESS"

OutcomeNames ==
    {"already_logged_in", "show_associate", "log_in_user",
     "show_pick_account", "show_registration"}

(* The reconciliation table: the outcome for a session user u (id 0: not   *)
(* authenticated) and the accounts ms that match the OpenID                *)
Reconciled(u, ms) ==
    IF u.id # 0
    THEN IF \E i \in 1..Len(ms) : ms[i] = u.id THEN "already_logged_in"
         ELSE "show_associate"
    ELSE IF Len(ms) = 1 THEN "log_in_user"
    ELSE IF Len(ms) > 1 THEN "show_pick_account"
    ELSE "show_registration"

(* C11: on_logged_in takes exactly one outcome, the one the reconciliation *)
(* table gives for (authenticated, current account, matching accounts):    *)
(* AlreadyLinked, OfferAssociation, LogInAs(the one match),                *)
(* OfferAccountPicker or OfferRegistration.                                *)
C11_ReconciliationTable ==
    LoggedIn =>
        LET expected == Reconciled(call.before.user, call.q.matches)
        IN  /\ call.outcome = expected
            /\ Range(call.trace) \cap OutcomeNames = {expected}
            /\ expected = "log_in_user" => user.id = call.q.matches[1]
            /\ expected # "log_in_user" => user = call.before.user

(* an authenticated visitor whose account is the second of two matches *)
C11_Witness ==
    /\ LoggedIn
    /\ call.before.user.id # 0
    /\ Len(call.q.matches) = 2
    /\ call.q.matches[2] = call.before.user.id
    /\ call.outcome = "already_logged_in"

(* Position of a step in the call's trace, 0 when it did not happen *)
At(name) ==
    IF name \in Range(call.trace)
    THEN CHOOSE i \in 1..Len(call.trace) : call.trace[i] = name
    ELSE 0

(* C18: every successful completion handled by AuthConsumer ends with a    *)
(* response, whichever branch on_logged_in takes; when the session is not  *)
(* authenticated and exactly one account matches, the user is annotated    *)
(* with the backend, then logged in, and the request returns the redirect  *)
(* of log_in_user.                                                         *)
C18_EveryBranchResponds ==
    LoggedIn =>
        /\ call.exc = "none"
        /\ call.response \notin {"None", "none"}
        /\ (call.before.user.id = 0 /\ Len(call.q.matches) = 1)
              => /\ user = [id |-> call.q.matches[1],
                            backend |-> "ModelBackend"]
                 /\ 0 < At("set_backend") /\ At("set_backend") < At("login")
                 /\ call.response = on_login_complete

---------------------------------------------------------------------------
(* Properties of the codec (checked under SpecCodec) *)

Untouched == c_kind = "none"
Altered == c_kind \in {"payload", "signature"}

(* C8: decoding an encoded record under the same secret returns that       *)
(* record, and an encoded token holds exactly one ':'.                     *)
C8_RoundTrip ==
    /\ (c_pc \in {"encoded", "decoded"} /\ Untouched)
           => count(c_token, Colon) = 1
    /\ (c_pc = "decoded" /\ Untouched)
           => (c_result.exc = "none" /\ c_result.value = c_obj)

C8_Witness ==
    /\ c_pc = "decoded" /\ Untouched
    /\ c_obj = [openid |-> 2, sreg |-> 1]
    /\ c_result.value = c_obj
    /\ secret_key = <<>>

(* C9 as claimed: every single-position change of the payload or of the    *)
(* signature makes decode_object fail with the signature error.            *)
C9_AlteredFailsWithSignatureError ==
    (c_pc = "decoded" /\ Altered)
        => /\ c_result.exc = "ValueError"
           /\ c_result.msg = "Signature failed"
           /\ c_result.value = None

(* C9 as amended: every single-position change of the payload or of the    *)
(* signature makes decode_object raise ValueError and return no value; the *)
(* error is the signature error unless the new character is ':', when it   *)
(* is the one-colon error; the payload is never decoded.                   *)
C9_AlteredNeverDecoded ==
    (c_pc = "decoded" /\ Altered)
        => /\ c_result.exc = "ValueError"
           /\ c_result.value = None
           /\ ~c_result.payload_decoded
           /\ IF count(c_token, Colon) = 1
              THEN c_result.msg = "Signature failed"
              ELSE c_result.msg = "Should be one and only one colon"

C9_Witness ==
    /\ c_pc = "decoded" /\ c_kind = "payload"
    /\ count(c_token, Colon) = 1
    /\ c_result.msg = "Signature failed"

(* C10: a string with no ':' or with two or more fails with the one-colon  *)
(* error before a signature is computed and before a payload is decoded.   *)
C10_MalformedBeforeSignature ==
    (c_pc = "decoded" /\ count(c_token, Colon) # 1)
        => /\ c_result.exc = "ValueError"
           /\ c_result.msg = "Should be one and only one colon"
           /\ ~c_result.sig_computed
           /\ ~c_result.payload_decoded
           /\ c_result.value = None

C10_Witness ==
    /\ c_pc = "decoded" /\ c_kind = "arbitrary"
    /\ count(c_token, Colon) >= 2
    /\ Len(c_token) > MaxTokenLen
    /\ c_result.msg = "Should be one and only one colon"

=============================================================================
